---- MODULE Spec2Model ----
(***************************************************************************)
(* The scorer of the name-matching challenge (scripts/score.ts): main()    *)
(* loads a suite, calls the candidate's setup, runs every case's search    *)
(* under withTimeout, classifies and aggregates the returned ids, calls    *)
(* cleanup and prints the summary.                                         *)
(*                                                                         *)
(* Strings are sequences of one-character strings, so that trim() and      *)
(* String() are computed.  Numbers of the summary are exact rationals      *)
(* [num, den] (the code uses IEEE doubles).  Time is counted in whole      *)
(* milliseconds since the `start` of the current case.                     *)
(***************************************************************************)
EXTENDS Integers, Sequences, FiniteSets, TLC

\* ------------------------------------------------------------------ bounds
MaxCases == 2
MaxExpected == 2
MaxFalsePositive == 1
MaxRaw == 1
MaxSyncMs == 1
TimeoutMs == 1

\* ------------------------------------------------------- program constants
PENALTY_LISTED_FP_PERCENT == 2
PENALTY_UNEXPECTED_EXTRA_PERCENT == 5

\* ----------------------------------------------------------------- strings
Str1 == <<"1">>
Str2 == <<"2">>
Str3 == <<"3">>
Str4 == <<"4">>
Str5 == <<"5">>
Str9 == <<"9">>

IsWhitespace(c) == c = " "

RECURSIVE TrimStart(_)
TrimStart(s) ==
  IF s # <<>> /\ IsWhitespace(Head(s)) THEN TrimStart(Tail(s)) ELSE s

RECURSIVE TrimEnd(_)
TrimEnd(s) ==
  IF s # <<>> /\ IsWhitespace(s[Len(s)])
    THEN TrimEnd(SubSeq(s, 1, Len(s) - 1))
    ELSE s

Trim(s) == TrimEnd(TrimStart(s))

Digit(n) == <<"0", "1", "2", "3", "4", "5", "6", "7", "8", "9">>[n + 1]

RECURSIVE Decimal(_)
Decimal(n) == IF n < 10 THEN <<Digit(n)>> ELSE Decimal(n \div 10) \o <<Digit(n % 10)>>

\* A value of the candidate's array: a string or a non-negative integer.
StrValue(s) == [t |-> "string", s |-> s, n |-> 0]
NumValue(n) == [t |-> "number", s |-> <<>>, n |-> n]

\* String(value)
StringOf(value) == IF value.t = "string" THEN value.s ELSE Decimal(value.n)

Includes(seq, x) == \E k \in 1..Len(seq) : seq[k] = x

SeqsUpTo(S, n) == UNION {[1..k -> S] : k \in 0..n}

\* ------------------------------------------------------------- toUniqueIds
\* A loop that does not look at `seen`.
RECURSIVE UniqueLoopKeepingRepeats(_, _)
UniqueLoopKeepingRepeats(rawItems, out) ==
  IF rawItems = <<>> THEN out
  ELSE LET id == Trim(StringOf(Head(rawItems)))
       IN IF id = <<>>
            THEN UniqueLoopKeepingRepeats(Tail(rawItems), out)
            ELSE UniqueLoopKeepingRepeats(Tail(rawItems), Append(out, id))

RECURSIVE UniqueLoop(_, _)
UniqueLoop(rawItems, out) ==
  IF rawItems = <<>> THEN out
  ELSE LET id == Trim(StringOf(Head(rawItems)))
       IN IF id = <<>> \/ Includes(out, id)
            THEN UniqueLoop(Tail(rawItems), out)
            ELSE UniqueLoop(Tail(rawItems), Append(out, id))

toUniqueIds(raw) == IF ~raw.isArray THEN <<>> ELSE UniqueLoop(raw.items, <<>>)

\* ---------------------------------------------------------- classification
\* byId: the ids of the dataset's rows.
byId == {Str1, Str2, Str3, Str4, Str5}

HitIds(testCase, ids) == SelectSeq(testCase.expectedIds, LAMBDA id : Includes(ids, id))
\* Every expected id reported missing.
MissingIdsUnfiltered(testCase, ids) == testCase.expectedIds

MissingIds(testCase, ids) == SelectSeq(testCase.expectedIds, LAMBDA id : ~Includes(ids, id))

FpHits(testCase, ids) == SelectSeq(ids, LAMBDA id : Includes(testCase.falsePositiveIds, id))
\* The test of byId.has(id) without its negation.
InvalidIdsInverted(ids) == SelectSeq(ids, LAMBDA id : id \in byId)

InvalidIds(ids) == SelectSeq(ids, LAMBDA id : id \notin byId)
\* Extras that do not leave out the listed false positives.
ExtrasUnscoredListedToo(testCase, ids) ==
  SelectSeq(ids, LAMBDA id : id \in byId /\ ~Includes(testCase.expectedIds, id))

ExtrasUnscored(testCase, ids) ==
  SelectSeq(ids, LAMBDA id : /\ id \in byId
                             /\ ~Includes(testCase.expectedIds, id)
                             /\ ~Includes(testCase.falsePositiveIds, id))

\* runtimeError: string | null
NullError == [isNull |-> TRUE, message |-> ""]
ErrorString(m) == [isNull |-> FALSE, message |-> m]
\* !runtimeError in place of runtimeError === null: an empty message passes.
PassIfFalsy(missing, fp, extras, invalid, err) ==
  /\ Len(missing) = 0
  /\ Len(fp) = 0
  /\ Len(extras) = 0
  /\ Len(invalid) = 0
  /\ (err.isNull \/ err.message = "")

Pass(missing, fp, extras, invalid, err) ==
  /\ Len(missing) = 0
  /\ Len(fp) = 0
  /\ Len(extras) = 0
  /\ Len(invalid) = 0
  /\ err = NullError

\* ------------------------------------------------- what the candidate does
\* A value the candidate throws or rejects with: an Error with a message, or
\* another value, of which `text` is String(value).
ErrorObject(m) == [isError |-> TRUE, message |-> m, text |-> ""]
OtherThrown(t) == [isError |-> FALSE, message |-> "", text |-> t]
ThrownValues == {ErrorObject(""), OtherThrown("oops")}
ScoringThrownValues == {ErrorObject("")}

\* error instanceof Error ? error.message : String(error)
MessageOf(error) == IF error.isError THEN error.message ELSE error.text

TimeoutMessage == "search timed out after ${timeoutMs}ms"
TimeoutError == ErrorObject(TimeoutMessage)

ArrayOf(items) == [isArray |-> TRUE, items |-> items]
NotAnArray == [isArray |-> FALSE, items |-> <<>>]
\* The values of the arrays a candidate returns: under Spec and under SpecScoring.
RawValues == {StrValue(Str1)}
ScoringRawValues == {StrValue(<<" ", "1">>), NumValue(2), StrValue(Str9), StrValue(<<" ">>)}
RawOutputs == {ArrayOf(items) : items \in SeqsUpTo(RawValues, MaxRaw)}
ScoringRawOutputs ==
  {NotAnArray} \cup {ArrayOf(items) : items \in SeqsUpTo(ScoringRawValues, MaxRaw)}

\* What a promise settles with.
Fulfilled(raw) == [kind |-> "fulfilled", raw |-> raw, error |-> ErrorObject("")]
Rejected(error) == [kind |-> "rejected", raw |-> NotAnArray, error |-> error]
NoValue == [kind |-> "none", raw |-> NotAnArray, error |-> ErrorObject("")]
Settlements == {Fulfilled(raw) : raw \in RawOutputs} \cup {Rejected(e) : e \in ThrownValues}
ScoringSettlements ==
  {Fulfilled(raw) : raw \in ScoringRawOutputs} \cup {Rejected(e) : e \in ScoringThrownValues}

\* ------------------------------------------------------------- the suites
SuiteIds == {Str1, Str2}
FalsePositiveIdsUsed == {Str2}
Datasets == {"small", "large"}
ArgsDataset == "small"

SuiteIdOrder == <<Str1, Str2>>
RankOf(id) == CHOOSE r \in 1..Len(SuiteIdOrder) : SuiteIdOrder[r] = id
IsAscending(ids) == \A k \in 1..(Len(ids) - 1) : RankOf(ids[k]) < RankOf(ids[k + 1])

\* Under Spec: expected ids in ascending order, no listed false positive.
TestCases ==
  [expectedIds : {ids \in SeqsUpTo(SuiteIds, MaxExpected) : IsAscending(ids)},
   falsePositiveIds : {<<>>}]
Suites == [dataset : Datasets, cases : SeqsUpTo(TestCases, MaxCases)]

\* Under SpecScoring: any lists, repeated ids included.
ScoringTestCases ==
  [expectedIds : SeqsUpTo(SuiteIds, MaxExpected),
   falsePositiveIds : SeqsUpTo(FalsePositiveIdsUsed, MaxFalsePositive)]
ScoringSuites == [dataset : Datasets, cases : SeqsUpTo(ScoringTestCases, MaxCases)]

\* ------------------------------------------------------------------- state
VARIABLES
  pc,            \* where main() stands
  suite,         \* the parsed suite file
  exports,       \* typeof setup, typeof cleanup === "function", once looked at
  setupCalls,    \* calls of setup so far
  cleanupCalls,  \* calls of cleanup so far
  index,         \* cases whose loop body has ended
  promise,       \* per case, the promise its search call returned
  timer,         \* per case, the timer withTimeout set
  race,          \* per case, the promise of Promise.race: its state and value
  sinceStart,    \* performance.now() - start, for the current case
  armedAt,       \* sinceStart when the current case's timer was set
  returnedIds, runtimeError, elapsed,
  hitIds, missingIds, fpHits, invalidIds, extrasUnscored,
  expectedTotal, expectedHits, listedFalsePositiveCount, unexpectedExtraCount,
  invalidIdCount, returnedTotal, passCases, timesMs,
  printed,       \* what printCaseResult was given, case by case
  summary        \* the figures of the Score Summary

lifeVars == <<suite, exports, setupCalls, cleanupCalls>>
callVars == <<promise, timer, race>>
clockVars == <<sinceStart, armedAt>>
outcomeVars == <<returnedIds, runtimeError, elapsed>>
classVars == <<hitIds, missingIds, fpHits, invalidIds, extrasUnscored>>
countVars == <<expectedTotal, expectedHits, listedFalsePositiveCount,
               unexpectedExtraCount, invalidIdCount, returnedTotal, passCases>>
vars == <<pc, index, lifeVars, callVars, clockVars, outcomeVars, classVars,
          countVars, timesMs, printed, summary>>

NoSummary == [produced |-> FALSE]
\* winner: the input that settled the race, "search" or "timer".
NoRace == [state |-> "none", value |-> NoValue, winner |-> "none"]
PendingRace == [state |-> "pending", value |-> NoValue, winner |-> "none"]

Cases == suite.cases
NumCases == Len(suite.cases)
\* The case of the running loop body (1-based).
Current == index + 1
testCase == suite.cases[Current]

InitWith(suites) ==
  /\ pc = "load"
  /\ suite \in suites
  /\ exports = [setup |-> "unchecked", cleanup |-> "unchecked"]
  /\ setupCalls = 0
  /\ cleanupCalls = 0
  /\ index = 0
  /\ promise = [i \in 1..NumCases |-> "unstarted"]
  /\ timer = [i \in 1..NumCases |-> "unset"]
  /\ race = [i \in 1..NumCases |-> NoRace]
  /\ sinceStart = 0
  /\ armedAt = 0
  /\ returnedIds = <<>>
  /\ runtimeError = NullError
  /\ elapsed = 0
  /\ hitIds = <<>>
  /\ missingIds = <<>>
  /\ fpHits = <<>>
  /\ invalidIds = <<>>
  /\ extrasUnscored = <<>>
  /\ expectedTotal = 0
  /\ expectedHits = 0
  /\ listedFalsePositiveCount = 0
  /\ unexpectedExtraCount = 0
  /\ invalidIdCount = 0
  /\ returnedTotal = 0
  /\ passCases = 0
  /\ timesMs = <<>>
  /\ printed = <<>>
  /\ summary = NoSummary

Init == InitWith(Suites)

InitScoring == InitWith(ScoringSuites)
\* A suite whose dataset is not compared.
LoadSuiteUnchecked ==
  /\ pc = "load"
  /\ pc' = "setup"
  /\ UNCHANGED <<index, lifeVars, callVars, clockVars, outcomeVars, classVars,
                 countVars, timesMs, printed, summary>>

\* ---------------------------------------------------------------- loading
\* The suite is read and its dataset compared with --dataset.
LoadSuite ==
  /\ pc = "load"
  /\ pc' = IF suite.dataset # ArgsDataset THEN "aborted" ELSE "setup"
  /\ UNCHANGED <<index, lifeVars, callVars, clockVars, outcomeVars, classVars,
                 countVars, timesMs, printed, summary>>

\* ------------------------------------------------------------------ setup
CallSetup ==
  /\ pc = "setup"
  /\ \E isFunction \in {"yes", "no"} :
       /\ exports' = [exports EXCEPT !.setup = isFunction]
       /\ IF isFunction = "yes"
            THEN /\ setupCalls' = setupCalls + 1
                 /\ pc' = "setup_await"
            ELSE /\ setupCalls' = setupCalls
                 /\ pc' = "loop"
  /\ UNCHANGED <<index, suite, cleanupCalls, callVars, clockVars,
                 outcomeVars, classVars, countVars, timesMs, printed, summary>>

\* await setup(datasetPath): it returns, or it rejects and main() ends.
SetupSettles ==
  /\ pc = "setup_await"
  /\ \E ok \in BOOLEAN : pc' = IF ok THEN "loop" ELSE "aborted"
  /\ UNCHANGED <<index, lifeVars, callVars, clockVars, outcomeVars, classVars,
                 countVars, timesMs, printed, summary>>
\* A catch block that sets no runtimeError.
OutcomeWithoutError(settled) ==
  IF settled.kind = "fulfilled"
    THEN [returnedIds |-> toUniqueIds(settled.raw), runtimeError |-> NullError]
    ELSE [returnedIds |-> <<>>, runtimeError |-> NullError]

\* --------------------------------------------------------------- the loop
\* Lines 314-319: what the try/catch makes of the settled race.
Outcome(settled) ==
  IF settled.kind = "fulfilled"
    THEN [returnedIds |-> toUniqueIds(settled.raw), runtimeError |-> NullError]
    ELSE [returnedIds |-> <<>>, runtimeError |-> ErrorString(MessageOf(settled.error))]
\* A race that the last input to settle settles again.
RaceSettleAgain(r, settlement, input) ==
  IF r.state # "none"
    THEN [state |-> settlement.kind, value |-> settlement, winner |-> input]
    ELSE r

\* Promise.race: the first input to settle settles it, a later one does not.
RaceSettle(r, settlement, input) ==
  IF r.state = "pending"
    THEN [state |-> settlement.kind, value |-> settlement, winner |-> input]
    ELSE r
\* One race shared by every call: a search promise settles the awaited one.
RaceOfSearchShared(i) == IF index < NumCases THEN Current ELSE i

\* The race a search call's promise is an input of: the one withTimeout made
\* for the same case.
RaceOfSearch(i) == i

\* The race a timer's timeout promise is an input of.
RaceOfTimer(i) == i

\* finally { clearTimeout(timer) }
ClearTimeout(t) == IF t = "armed" THEN "cleared" ELSE t
\* A catch path that records no elapsed time.
SearchThrowsWithoutSample(syncMs, thrown) ==
  /\ pc = "loop"
  /\ index < NumCases
  /\ \E d \in syncMs, e \in thrown :
       /\ promise' = [promise EXCEPT ![Current] = "threw"]
       /\ returnedIds' = Outcome(Rejected(e)).returnedIds
       /\ runtimeError' = Outcome(Rejected(e)).runtimeError
       /\ sinceStart' = d
       /\ elapsed' = d
  /\ pc' = "classify"
  /\ UNCHANGED <<index, lifeVars, timer, race, armedAt, classVars, countVars,
                 timesMs, printed, summary>>

\* The loop body starts and search(testCase.query) throws before it returns,
\* after running for d ms: the catch block, then lines 321-322.
SearchThrows(syncMs, thrown) ==
  /\ pc = "loop"
  /\ index < NumCases
  /\ \E d \in syncMs, e \in thrown :
       /\ promise' = [promise EXCEPT ![Current] = "threw"]
       /\ returnedIds' = Outcome(Rejected(e)).returnedIds
       /\ runtimeError' = Outcome(Rejected(e)).runtimeError
       /\ sinceStart' = d
       /\ elapsed' = d
       /\ timesMs' = Append(timesMs, d)
  /\ pc' = "classify"
  /\ UNCHANGED <<index, lifeVars, timer, race, armedAt, classVars, countVars,
                 printed, summary>>
\* withTimeout awaits the race without having set the timer.
SearchReturnsWithoutTimer(syncMs) ==
  /\ pc = "loop"
  /\ index < NumCases
  /\ \E d \in syncMs :
       /\ sinceStart' = d
       /\ armedAt' = d
  /\ promise' = [promise EXCEPT ![Current] = "pending"]
  /\ race' = [race EXCEPT ![Current] = PendingRace]
  /\ returnedIds' = <<>>
  /\ runtimeError' = NullError
  /\ pc' = "await"
  /\ UNCHANGED <<index, lifeVars, timer, elapsed, classVars, countVars, timesMs,
                 printed, summary>>

\* The loop body starts and search(testCase.query) returns its promise after
\* running for d ms; withTimeout then sets the timer and awaits the race.
SearchReturns(syncMs) ==
  /\ pc = "loop"
  /\ index < NumCases
  /\ \E d \in syncMs :
       /\ sinceStart' = d
       /\ armedAt' = d
  /\ promise' = [promise EXCEPT ![Current] = "pending"]
  /\ timer' = [timer EXCEPT ![Current] = "armed"]
  /\ race' = [race EXCEPT ![Current] = PendingRace]
  /\ returnedIds' = <<>>
  /\ runtimeError' = NullError
  /\ pc' = "await"
  /\ UNCHANGED <<index, lifeVars, elapsed, classVars, countVars, timesMs,
                 printed, summary>>

\* The promise of some case's search call settles, now or long after its case.
SearchSettles(settlements) ==
  /\ \E i \in 1..NumCases, s \in settlements :
       /\ promise[i] = "pending"
       /\ promise' = [promise EXCEPT ![i] = s.kind]
       /\ race' = [race EXCEPT ![RaceOfSearch(i)] = RaceSettle(race[RaceOfSearch(i)], s, "search")]
  /\ UNCHANGED <<pc, index, lifeVars, timer, clockVars, outcomeVars, classVars,
                 countVars, timesMs, printed, summary>>

\* A millisecond passes while main() waits for a pending race whose timer is
\* not yet due.
Tick ==
  /\ pc = "await"
  /\ race[Current].state = "pending"
  /\ sinceStart < armedAt + TimeoutMs
  /\ sinceStart' = sinceStart + 1
  /\ UNCHANGED <<pc, index, lifeVars, callVars, armedAt, outcomeVars, classVars,
                 countVars, timesMs, printed, summary>>

\* The timer of the awaited case is due and its callback rejects the timeout
\* promise.
TimerFires ==
  /\ pc = "await"
  /\ timer[Current] = "armed"
  /\ sinceStart >= armedAt + TimeoutMs
  /\ timer' = [timer EXCEPT ![Current] = "fired"]
  /\ race' = [race EXCEPT ![RaceOfTimer(Current)] =
                RaceSettle(race[RaceOfTimer(Current)], Rejected(TimeoutError), "timer")]
  /\ UNCHANGED <<pc, index, lifeVars, promise, clockVars, outcomeVars, classVars,
                 countVars, timesMs, printed, summary>>

\* The awaited race has settled: withTimeout's finally, the try or the catch
\* of main(), then lines 321-322.
Resume ==
  /\ pc = "await"
  /\ race[Current].state \in {"fulfilled", "rejected"}
  /\ timer' = [timer EXCEPT ![Current] = ClearTimeout(timer[Current])]
  /\ returnedIds' = Outcome(race[Current].value).returnedIds
  /\ runtimeError' = Outcome(race[Current].value).runtimeError
  /\ race' = [race EXCEPT ![Current].value = NoValue]  \* read once, by the await
  /\ elapsed' = sinceStart
  /\ timesMs' = Append(timesMs, sinceStart)
  /\ pc' = "classify"
  /\ UNCHANGED <<index, lifeVars, promise, clockVars, classVars, countVars,
                 printed, summary>>

\* Lines 324-330.
Classify ==
  /\ pc = "classify"
  /\ hitIds' = HitIds(testCase, returnedIds)
  /\ missingIds' = MissingIds(testCase, returnedIds)
  /\ fpHits' = FpHits(testCase, returnedIds)
  /\ invalidIds' = InvalidIds(returnedIds)
  /\ extrasUnscored' = ExtrasUnscored(testCase, returnedIds)
  /\ pc' = "aggregate"
  /\ UNCHANGED <<index, lifeVars, callVars, clockVars, outcomeVars, countVars,
                 timesMs, printed, summary>>

\* Lines 332-366, and the end of the loop body, whose variables go out of scope.
Aggregate ==
  /\ pc = "aggregate"
  /\ expectedTotal' = expectedTotal + Len(testCase.expectedIds)
  /\ expectedHits' = expectedHits + Len(hitIds)
  /\ listedFalsePositiveCount' = listedFalsePositiveCount + Len(fpHits)
  /\ unexpectedExtraCount' = unexpectedExtraCount + Len(extrasUnscored)
  /\ invalidIdCount' = invalidIdCount + Len(invalidIds)
  /\ returnedTotal' = returnedTotal + Len(returnedIds)
  /\ LET pass == Pass(missingIds, fpHits, extrasUnscored, invalidIds, runtimeError)
     IN /\ passCases' = IF pass THEN passCases + 1 ELSE passCases
        /\ printed' = Append(printed,
                        [pass |-> pass, elapsedMs |-> elapsed,
                         returnedIds |-> returnedIds, missingIds |-> missingIds,
                         fpHits |-> fpHits, invalidIds |-> invalidIds,
                         extrasUnscored |-> extrasUnscored,
                         runtimeError |-> runtimeError])
  /\ index' = index + 1
  /\ returnedIds' = <<>>
  /\ runtimeError' = NullError
  /\ elapsed' = 0
  /\ hitIds' = <<>>
  /\ missingIds' = <<>>
  /\ fpHits' = <<>>
  /\ invalidIds' = <<>>
  /\ extrasUnscored' = <<>>
  /\ sinceStart' = 0
  /\ armedAt' = 0
  /\ pc' = "loop"
  /\ UNCHANGED <<lifeVars, callVars, timesMs, summary>>
\* A loop that ends one case early.
LoopEndsEarly ==
  /\ pc = "loop"
  /\ index >= NumCases - 1
  /\ pc' = "cleanup"
  /\ UNCHANGED <<index, lifeVars, callVars, clockVars, outcomeVars, classVars,
                 countVars, timesMs, printed, summary>>

\* The for loop has no case left.
LoopEnds ==
  /\ pc = "loop"
  /\ index = NumCases
  /\ pc' = "cleanup"
  /\ UNCHANGED <<index, lifeVars, callVars, clockVars, outcomeVars, classVars,
                 countVars, timesMs, printed, summary>>

\* ---------------------------------------------------------------- cleanup
CallCleanup ==
  /\ pc = "cleanup"
  /\ \E isFunction \in {"yes", "no"} :
       /\ exports' = [exports EXCEPT !.cleanup = isFunction]
       /\ IF isFunction = "yes"
            THEN /\ cleanupCalls' = cleanupCalls + 1
                 /\ pc' = "cleanup_await"
            ELSE /\ cleanupCalls' = cleanupCalls
                 /\ pc' = "summary"
  /\ UNCHANGED <<index, suite, setupCalls, callVars, clockVars,
                 outcomeVars, classVars, countVars, timesMs, printed, summary>>

\* await cleanup(): it returns, or it rejects and main() ends.
CleanupSettles ==
  /\ pc = "cleanup_await"
  /\ \E ok \in BOOLEAN : pc' = IF ok THEN "summary" ELSE "aborted"
  /\ UNCHANGED <<index, lifeVars, callVars, clockVars, outcomeVars, classVars,
                 countVars, timesMs, printed, summary>>

\* ---------------------------------------------------------------- summary
Rat(n, d) == [num |-> n, den |-> d]
RatSub(a, b) == Rat(a.num * b.den - b.num * a.den, a.den * b.den)
RatLess(a, b) == a.num * b.den < b.num * a.den
RatEq(a, b) == a.num * b.den = b.num * a.den
RatLeq(a, b) == ~RatLess(b, a)
RatMax(a, b) == IF RatLess(a, b) THEN b ELSE a
RatMin(a, b) == IF RatLess(b, a) THEN b ELSE a
\* A recall of 0 when nothing was expected.
RecallZeroWhenNoneExpected(hits, total) ==
  IF total = 0 THEN Rat(0, 1) ELSE Rat(hits * 100, total)

Recall(hits, total) == IF total = 0 THEN Rat(100, 1) ELSE Rat(hits * 100, total)

Precision(hits, returned) == IF returned = 0 THEN Rat(0, 1) ELSE Rat(hits * 100, returned)

PenaltyPoints(listedFp, extras) ==
  Rat(listedFp * PENALTY_LISTED_FP_PERCENT + extras * PENALTY_UNEXPECTED_EXTRA_PERCENT, 100)

ScoreRaw(recall, penaltyPoints) == RatSub(recall, penaltyPoints)
\* A score that is not clamped.
ScoreUnclamped(scoreRaw) == scoreRaw

ScoreClamped(scoreRaw) == RatMax(Rat(0, 1), RatMin(Rat(100, 1), scoreRaw))
\* A score without the override for invalid ids.
ScoreWithoutOverride(invalidCount, scoreClamped) == scoreClamped

Score(invalidCount, scoreClamped) == IF invalidCount > 0 THEN Rat(0, 1) ELSE scoreClamped

\* [...values].sort((a, b) => a - b)
RECURSIVE InsertSorted(_, _)
InsertSorted(sorted, v) ==
  IF sorted = <<>> THEN <<v>>
  ELSE IF v < Head(sorted) THEN <<v>> \o sorted
  ELSE <<Head(sorted)>> \o InsertSorted(Tail(sorted), v)

RECURSIVE SortAscending(_)
SortAscending(values) ==
  IF values = <<>> THEN <<>>
  ELSE InsertSorted(SortAscending(SubSeq(values, 1, Len(values) - 1)), values[Len(values)])
\* The index taken in the samples as recorded, not sorted.
percentileUnsorted(values, pctHundredths) ==
  IF Len(values) = 0 THEN 0
  ELSE LET idx == ((Len(values) - 1) * pctHundredths) \div 100
       IN values[idx + 1]

\* percentile(values, pct), pct given in hundredths.
percentile(values, pctHundredths) ==
  IF Len(values) = 0 THEN 0
  ELSE LET sorted == SortAscending(values)
           idx == ((Len(sorted) - 1) * pctHundredths) \div 100
       IN sorted[idx + 1]

RECURSIVE SumOf(_)
SumOf(values) == IF values = <<>> THEN 0 ELSE Head(values) + SumOf(Tail(values))

\* Lines 375-389.
Summarize ==
  /\ pc = "summary"
  /\ LET recall == Recall(expectedHits, expectedTotal)
         precision == Precision(expectedHits, returnedTotal)
         penaltyPoints == PenaltyPoints(listedFalsePositiveCount, unexpectedExtraCount)
         scoreRaw == ScoreRaw(recall, penaltyPoints)
         scoreClamped == ScoreClamped(scoreRaw)
         totalMs == SumOf(timesMs)
     IN summary' = [produced |-> TRUE,
                    recall |-> recall,
                    precision |-> precision,
                    penaltyPoints |-> penaltyPoints,
                    scoreRaw |-> scoreRaw,
                    score |-> Score(invalidIdCount, scoreClamped),
                    totalMs |-> totalMs,
                    avgMs |-> Rat(totalMs, IF Len(timesMs) > 1 THEN Len(timesMs) ELSE 1),
                    p95Ms |-> percentile(timesMs, 95)]
  /\ pc' = "done"
  /\ UNCHANGED <<index, lifeVars, callVars, clockVars, outcomeVars, classVars,
                 countVars, timesMs, printed>>

\* ---------------------------------------------------------- specification
\* What main() does whatever the candidate does.
Harness ==
  \/ LoadSuite
  \/ CallSetup
  \/ SetupSettles
  \/ Tick
  \/ TimerFires
  \/ Resume
  \/ Classify
  \/ Aggregate
  \/ LoopEnds
  \/ CallCleanup
  \/ CleanupSettles
  \/ Summarize

\* Spec: every timing and every way to fail, on simple suites and outputs.
Next ==
  \/ Harness
  \/ SearchThrows(0..MaxSyncMs, ThrownValues)
  \/ SearchReturns(0..MaxSyncMs)
  \/ SearchSettles(Settlements)

Spec == Init /\ [][Next]_vars

\* SpecScoring: every suite and every output, a search call that returns at once.
NextScoring ==
  \/ Harness
  \/ SearchThrows({0}, ScoringThrownValues)
  \/ SearchReturns({0})
  \/ SearchSettles(ScoringSettlements)

SpecScoring == InitScoring /\ [][NextScoring]_vars

\* ------------------------------------------------------- claims: the cases
\* How case k's search call failed, if it did.
Threw(k) == promise[k] = "threw"
RejectedBySearch(k) == race[k].state = "rejected" /\ race[k].winner = "search"
TimedOut(k) == race[k].state = "rejected" /\ race[k].winner = "timer"
Failed(k) == Threw(k) \/ RejectedBySearch(k) \/ TimedOut(k)

Done == 1..Len(printed)
SumOver(f) == SumOf([k \in 1..Len(f) |-> f[k]])

\* C1: a case whose search threw, rejected or timed out has no returned id, a
\* runtime error, every expected id missing and no pass; it adds nothing to
\* expectedHits, returnedTotal and passCases; and main() does not end inside the
\* loop: it ends early only before the first search call or in cleanup.
C1_FailureOutcome ==
  /\ \A k \in Done :
       Failed(k) =>
         /\ printed[k].returnedIds = <<>>
         /\ ~printed[k].runtimeError.isNull
         /\ printed[k].missingIds = Cases[k].expectedIds
         /\ ~printed[k].pass
  /\ expectedHits =
       SumOver([k \in Done |->
         IF Failed(k) THEN 0 ELSE Len(HitIds(Cases[k], printed[k].returnedIds))])
  /\ returnedTotal =
       SumOver([k \in Done |-> IF Failed(k) THEN 0 ELSE Len(printed[k].returnedIds)])
  /\ passCases =
       SumOver([k \in Done |-> IF Failed(k) \/ ~printed[k].pass THEN 0 ELSE 1])
  /\ pc = "aborted" =>
       \/ \A k \in 1..NumCases : promise[k] = "unstarted"
       \/ index = NumCases

\* A case with two expected ids timed out, the next case's search rejected,
\* and both were aggregated.
C1_Witness ==
  /\ Len(printed) = 2
  /\ TimedOut(1)
  /\ Len(Cases[1].expectedIds) = 2
  /\ printed[1].missingIds = Cases[1].expectedIds
  /\ RejectedBySearch(2)

\* How the scorer's result reads: Completed, TimedOut or Errored.
OutcomeKind(err) ==
  IF err.isNull THEN "Completed"
  ELSE IF err.message = TimeoutMessage THEN "TimedOut"
  ELSE "Errored"

\* C2: while a case's race is pending, the first of {its search promise settles,
\* its timer fires} settles the race: with the candidate's ids, with the
\* candidate's error, or with the timeout; a settled race never changes; the
\* case's outcome is what its race settled with (Completed with the normalized
\* ids, Errored with the candidate's message, or TimedOut), and a printed
\* outcome never changes.
C2_FirstEventDecides ==
  [][/\ \A i \in 1..NumCases :
          /\ (race[i].state = "pending" /\ promise[i] = "pending" /\ promise'[i] # "pending")
               => /\ race'[i].state = promise'[i]
                  /\ race'[i].winner = "search"
                  /\ race'[i].value.kind = promise'[i]
          /\ (race[i].state = "pending" /\ timer[i] = "armed" /\ timer'[i] = "fired")
               => /\ race'[i].state = "rejected"
                  /\ race'[i].winner = "timer"
                  /\ race'[i].value = Rejected(TimeoutError)
          /\ race[i].state \in {"fulfilled", "rejected"}
               => /\ race'[i].state = race[i].state
                  /\ race'[i].winner = race[i].winner
                  /\ race'[i].value \in {race[i].value, NoValue}
     /\ (pc = "await" /\ pc' # "await")
          => LET r == race[Current]
             IN /\ r.state = "fulfilled"
                     => /\ OutcomeKind(runtimeError') = "Completed"
                        /\ returnedIds' = toUniqueIds(r.value.raw)
                /\ (r.state = "rejected" /\ r.winner = "search")
                     => /\ OutcomeKind(runtimeError') = "Errored"
                        /\ runtimeError'.message = MessageOf(r.value.error)
                        /\ returnedIds' = <<>>
                /\ (r.state = "rejected" /\ r.winner = "timer")
                     => /\ OutcomeKind(runtimeError') = "TimedOut"
                        /\ returnedIds' = <<>>
     /\ (pc = "aggregate" /\ pc' # "aggregate")
          => /\ printed'[Current].runtimeError = runtimeError
             /\ printed'[Current].returnedIds = returnedIds
             /\ \/ Threw(Current)
                \/ OutcomeKind(runtimeError) =
                     (IF race[Current].state = "fulfilled" THEN "Completed"
                      ELSE IF race[Current].winner = "timer" THEN "TimedOut"
                      ELSE "Errored")
     /\ \A k \in Done : printed'[k] = printed[k]
    ]_vars

\* The candidate resolved with an id when the timer was due and had not fired:
\* the case completed with that id and the timer was cleared.
C2_Witness ==
  /\ Len(printed) >= 1
  /\ race[1].state = "fulfilled"
  /\ race[1].winner = "search"
  /\ timer[1] = "cleared"
  /\ printed[1].elapsedMs = MaxSyncMs + TimeoutMs
  /\ printed[1].returnedIds = <<Str1>>
  /\ printed[1].runtimeError.isNull

\* C3: once a case's race is settled, the settling of its search promise
\* changes nothing but that promise, and the firing of its timer nothing but
\* that timer: no outcome, no counter, no elapsed time, no race of any case;
\* after the await a timer is never left armed, so a finished case's timer
\* does not fire.
C3_LateSettlementIgnored ==
  [][/\ \A i \in 1..NumCases :
          /\ (promise[i] = "pending" /\ promise'[i] # "pending" /\ race[i].state # "pending")
               => UNCHANGED <<pc, index, lifeVars, timer, race, clockVars, outcomeVars,
                              classVars, countVars, timesMs, printed, summary>>
          /\ (timer[i] = "armed" /\ timer'[i] # "armed" /\ race[i].state # "pending"
              /\ pc' = pc)
               => UNCHANGED <<pc, index, lifeVars, promise, race, clockVars, outcomeVars,
                              classVars, countVars, timesMs, printed, summary>>
          /\ timer'[i] = "armed" => (i = index' + 1 /\ pc' = "await")
          /\ timer[i] \in {"cleared", "fired"} => timer'[i] = timer[i]
    ]_vars

\* The first case timed out, its search promise resolved while the second
\* case was awaited, and the second case completed with its own result.
C3_Witness ==
  /\ Len(printed) = 2
  /\ TimedOut(1)
  /\ promise[1] = "fulfilled"
  /\ printed[1].returnedIds = <<>>
  /\ printed[2].returnedIds = <<Str1>>
  /\ timer[2] = "cleared"

\* SpecLive: Spec with the scheduling main() can count on: the runtime runs a
\* continuation that is ready, a call of search returns or throws, time passes
\* and a due timer fires.  Nothing makes a promise of the candidate settle.
HarnessStep ==
  \/ LoadSuite
  \/ CallSetup
  \/ Resume
  \/ Classify
  \/ Aggregate
  \/ LoopEnds
  \/ CallCleanup
  \/ Summarize

SearchCall ==
  \/ SearchThrows(0..MaxSyncMs, ThrownValues)
  \/ SearchReturns(0..MaxSyncMs)

SpecLive ==
  /\ Init
  /\ [][Next]_vars
  /\ WF_vars(HarnessStep)
  /\ WF_vars(SearchCall)
  /\ WF_vars(Tick)
  /\ WF_vars(TimerFires)

SearchStarted == \E k \in 1..NumCases : promise[k] # "unstarted"
InLoop == pc \in {"loop", "await", "classify", "aggregate"}
AfterLoop == pc \in {"cleanup", "cleanup_await", "summary", "done"}
Calls(isFunction) == IF isFunction = "yes" THEN 1 ELSE 0

\* C5: setup is called once if it is exported and not at all if it is not, and
\* it has returned before the first search call; cleanup likewise is called
\* once or not at all, and only when the loop has ended with every case
\* aggregated; while setup or cleanup is awaited no loop body runs; a missing
\* setup or cleanup ends nothing: main() ends early only on a dataset mismatch
\* or when a setup or cleanup that was called rejects.
C5_SetupAndCleanupOnce ==
  /\ setupCalls <= 1
  /\ cleanupCalls <= 1
  /\ pc \in {"load", "setup"} => setupCalls = 0 /\ exports.setup = "unchecked"
  /\ pc = "setup_await" => setupCalls = 1 /\ ~SearchStarted /\ index = 0
  /\ (InLoop \/ AfterLoop) => setupCalls = Calls(exports.setup)
  /\ SearchStarted => pc \notin {"load", "setup", "setup_await"}
  /\ ~AfterLoop /\ pc # "aborted" => cleanupCalls = 0 /\ exports.cleanup = "unchecked"
  /\ cleanupCalls = 1 =>
       /\ index = NumCases
       /\ Len(printed) = NumCases
       /\ Len(timesMs) = NumCases
       /\ pc \in {"cleanup_await", "summary", "done", "aborted"}
  /\ pc \in {"summary", "done"} => cleanupCalls = Calls(exports.cleanup)
  /\ pc = "aborted" =>
       \/ suite.dataset # ArgsDataset /\ setupCalls = 0 /\ cleanupCalls = 0
       \/ setupCalls = 1 /\ ~SearchStarted /\ cleanupCalls = 0
       \/ cleanupCalls = 1

\* A run of two cases with setup and cleanup both called once, and done.
C5_Witness ==
  /\ pc = "done"
  /\ NumCases = 2
  /\ setupCalls = 1
  /\ cleanupCalls = 1

\* C6: when cleanup is called every search call of the run has settled.
C6_CleanupAfterSearchesSettled ==
  cleanupCalls = 1 => \A k \in 1..NumCases : promise[k] # "pending"

\* C7: a case's search call starts only when every earlier case has been
\* aggregated and has its elapsed time recorded; cases are printed in suite
\* order; each aggregated case has added its expected ids once and one elapsed
\* time; after the loop there are as many samples as cases.
C7_SequentialCases ==
  /\ Len(printed) = index
  /\ index <= NumCases
  /\ Len(timesMs) = (IF pc \in {"classify", "aggregate"} THEN index + 1 ELSE index)
  /\ \A k \in 1..NumCases :
       /\ promise[k] # "unstarted" => k <= index + 1
       /\ (promise[k] # "unstarted" /\ k = index + 1) => pc \in {"await", "classify", "aggregate"}
       /\ k <= index => promise[k] # "unstarted"
  /\ \A k \in Done :
       /\ printed[k].elapsedMs = timesMs[k]
       /\ printed[k].missingIds = MissingIds(Cases[k], printed[k].returnedIds)
  /\ expectedTotal = SumOver([k \in Done |-> Len(Cases[k].expectedIds)])
  /\ returnedTotal = SumOver([k \in Done |-> Len(printed[k].returnedIds)])
  /\ AfterLoop => index = NumCases /\ Len(timesMs) = NumCases

\* Two cases, the first of which threw, both aggregated, and the run done.
C7_Witness ==
  /\ pc = "done"
  /\ NumCases = 2
  /\ Threw(1)
  /\ Len(timesMs) = 2
  /\ expectedTotal = 3

\* ---------------------------------------------------- claims: the figures
Zero == Rat(0, 1)
Hundred == Rat(100, 1)
ReturnedInvalid(k) == \E j \in 1..Len(printed[k].returnedIds) : printed[k].returnedIds[j] \notin byId

\* C8: invalidIdCount is positive exactly when some case returned an id that
\* is not in the dataset, and then the summary's score is 0, whatever recall,
\* precision and the penalty are; recall and precision are the quotients of
\* the counters all the same.
C8_InvalidIdZeroesScore ==
  /\ invalidIdCount > 0 <=> \E k \in Done : ReturnedInvalid(k)
  /\ summary.produced =>
       /\ (\E k \in Done : ReturnedInvalid(k)) => summary.score.num = 0
       /\ invalidIdCount > 0 => RatEq(summary.score, Zero)
       /\ expectedTotal > 0 =>
            summary.recall.num * expectedTotal = 100 * expectedHits * summary.recall.den
       /\ expectedTotal = 0 => RatEq(summary.recall, Hundred)
       /\ returnedTotal > 0 =>
            summary.precision.num * returnedTotal = 100 * expectedHits * summary.precision.den

\* One case passed, the other returned only an id that is not in the dataset:
\* recall is 100, nothing is penalized, and the score is 0.
C8_Witness ==
  /\ summary.produced
  /\ NumCases = 2
  /\ passCases = 1
  /\ invalidIdCount = 1
  /\ expectedTotal > 0
  /\ RatEq(summary.recall, Hundred)
  /\ RatEq(summary.scoreRaw, Hundred)
  /\ RatEq(summary.score, Zero)

\* C9: a case passes exactly when it has no missing id, no listed false
\* positive, no unscored extra, no invalid id and no runtime error; passCases
\* counts those cases; a case whose search threw, rejected or timed out does
\* not pass, even with no expected id.
C9_PassPredicate ==
  /\ \A k \in Done :
       /\ printed[k].pass <=>
            /\ printed[k].missingIds = <<>>
            /\ printed[k].fpHits = <<>>
            /\ printed[k].extrasUnscored = <<>>
            /\ printed[k].invalidIds = <<>>
            /\ printed[k].runtimeError.isNull
       /\ Failed(k) => ~printed[k].pass /\ ~printed[k].runtimeError.isNull
  /\ passCases = Cardinality({k \in Done : printed[k].pass})
  /\ pc = "aggregate" =>
       (Pass(missingIds, fpHits, extrasUnscored, invalidIds, runtimeError)
          <=> /\ MissingIds(testCase, returnedIds) = <<>>
              /\ FpHits(testCase, returnedIds) = <<>>
              /\ ExtrasUnscored(testCase, returnedIds) = <<>>
              /\ InvalidIds(returnedIds) = <<>>
              /\ ~Failed(Current))

\* A case with no expected id whose search threw an Error with an empty
\* message: nothing is missing and the case did not pass; the other case passed.
C9_Witness ==
  /\ Len(printed) = 2
  /\ Threw(1)
  /\ Cases[1].expectedIds = <<>>
  /\ printed[1].missingIds = <<>>
  /\ printed[1].runtimeError = ErrorString("")
  /\ ~printed[1].pass
  /\ printed[2].pass
  /\ passCases = 1

\* C10: expectedHits never exceeds returnedTotal, and the summary's precision
\* is 0 when nothing was returned and within [0, 100] otherwise.
C10_PrecisionWithinBounds ==
  /\ expectedHits <= returnedTotal
  /\ summary.produced =>
       /\ returnedTotal = 0 => RatEq(summary.precision, Zero)
       /\ RatLeq(Zero, summary.precision)
       /\ RatLeq(summary.precision, Hundred)

\* C11: expectedHits never exceeds expectedTotal, at any point of the loop; the
\* summary's recall is within [0, 100], it is 100 when no id was expected (the
\* empty suite included) and the quotient of the two counters otherwise.
C11_RecallWithinBounds ==
  /\ 0 <= expectedHits
  /\ expectedHits <= expectedTotal
  /\ pc = "aggregate" => expectedHits + Len(hitIds) <= expectedTotal + Len(testCase.expectedIds)
  /\ summary.produced =>
       /\ RatLeq(Zero, summary.recall)
       /\ RatLeq(summary.recall, Hundred)
       /\ expectedTotal = 0 => RatEq(summary.recall, Hundred)
       /\ NumCases = 0 => RatEq(summary.recall, Hundred)
       /\ expectedTotal > 0 => RatEq(summary.recall, Rat(100 * expectedHits, expectedTotal))

\* Two cases that expected three ids, of which one was returned: the recall of
\* the summary is a third of 100.
C11_Witness ==
  /\ summary.produced
  /\ NumCases = 2
  /\ expectedTotal = 3
  /\ expectedHits = 1
  /\ RatEq(summary.recall, Rat(100, 3))

\* C12: the penalty is 0.02 per listed false positive plus 0.05 per unexpected
\* extra; with no invalid id the score is recall minus the penalty, clamped to
\* [0, 100]; the score is within [0, 100] in every run; and the penalty never
\* decreases when one of its two counters grows.
C12_ScoreIsClampedRecallMinusPenalty ==
  /\ [](summary.produced =>
          /\ summary.penaltyPoints.num * 100 =
               (listedFalsePositiveCount * 2 + unexpectedExtraCount * 5)
                 * summary.penaltyPoints.den
          /\ invalidIdCount = 0 =>
               LET raw == RatSub(summary.recall, summary.penaltyPoints)
               IN /\ RatLess(raw, Zero) => RatEq(summary.score, Zero)
                  /\ RatLess(Hundred, raw) => RatEq(summary.score, Hundred)
                  /\ (RatLeq(Zero, raw) /\ RatLeq(raw, Hundred)) => RatEq(summary.score, raw)
          /\ RatLeq(Zero, summary.score)
          /\ RatLeq(summary.score, Hundred))
  /\ [][(/\ listedFalsePositiveCount' >= listedFalsePositiveCount
         /\ unexpectedExtraCount' >= unexpectedExtraCount)
          => RatLeq(PenaltyPoints(listedFalsePositiveCount, unexpectedExtraCount),
                    PenaltyPoints(listedFalsePositiveCount', unexpectedExtraCount'))]_vars

\* One of two expected ids was returned and one listed false positive with it:
\* the score is 50 - 0.02.
C12_Witness ==
  /\ summary.produced
  /\ invalidIdCount = 0
  /\ listedFalsePositiveCount = 1
  /\ unexpectedExtraCount = 0
  /\ RatEq(summary.recall, Rat(50, 1))
  /\ RatEq(summary.score, Rat(4998, 100))

\* ---------------------------------------------------- claims: the loading
\* A case that lists an id both as expected and as a false positive.
Overlapping(case) == \E k \in 1..Len(case.expectedIds) : Includes(case.falsePositiveIds, case.expectedIds[k])

\* C13: a suite with a case that has an id both in expectedIds and in
\* falsePositiveIds is rejected when it is loaded: setup is not called, no
\* search call is made and no case is classified or aggregated.
C13_OverlappingSuiteRejected ==
  (\E k \in 1..NumCases : Overlapping(Cases[k])) =>
    /\ pc \in {"load", "aborted"}
    /\ setupCalls = 0
    /\ ~SearchStarted
    /\ index = 0
    /\ printed = <<>>

\* C14: when the suite's dataset is not the requested one, main() ends when
\* the suite is loaded: setup is never called, no search call is made for any
\* case, nothing is classified or aggregated and no summary is produced.
C14_DatasetMismatchAborts ==
  suite.dataset # ArgsDataset =>
    /\ pc \in {"load", "aborted"}
    /\ setupCalls = 0
    /\ exports.setup = "unchecked"
    /\ ~SearchStarted
    /\ \A k \in 1..NumCases : timer[k] = "unset" /\ race[k] = NoRace
    /\ index = 0
    /\ printed = <<>>
    /\ timesMs = <<>>
    /\ ~summary.produced

\* A suite of two cases for the other dataset, and main() has ended.
C14_Witness ==
  /\ pc = "aborted"
  /\ suite.dataset # ArgsDataset
  /\ NumCases = 2
  /\ setupCalls = 0

\* -------------------------------------------- claims: the classification
IdsOf(seq) == {seq[k] : k \in 1..Len(seq)}

\* C16: for every case, failed or not, each expected id is a hit or missing
\* and none is both: the two lists together are as long as expectedIds, so a
\* case adds to expectedTotal what it adds to expectedHits plus its number of
\* missing ids, and so do the cases together.
C16_HitsAndMissingPartitionExpected ==
  /\ pc = "aggregate" =>
       /\ Len(hitIds) + Len(missingIds) = Len(testCase.expectedIds)
       /\ IdsOf(hitIds) \cap IdsOf(missingIds) = {}
       /\ IdsOf(hitIds) \cup IdsOf(missingIds) = IdsOf(testCase.expectedIds)
       /\ Failed(Current) => hitIds = <<>> /\ missingIds = testCase.expectedIds
  /\ \A k \in Done :
       Len(HitIds(Cases[k], printed[k].returnedIds)) + Len(printed[k].missingIds)
         = Len(Cases[k].expectedIds)
  /\ expectedTotal = expectedHits + SumOver([k \in Done |-> Len(printed[k].missingIds)])

\* The first case threw and misses its two expected ids; the second has one
\* hit and one missing id.
C16_Witness ==
  /\ pc = "aggregate"
  /\ Len(printed) = 1
  /\ Threw(1)
  /\ Len(printed[1].missingIds) = 2
  /\ Len(hitIds) = 1
  /\ Len(missingIds) = 1

\* --------------------------------------------------------------- SpecIds
\* SpecIds: outputs of up to MaxIdsRaw values, known and unknown ids among
\* them, on cases that are well formed or not.
MaxIdsRaw == 3

IdsRawValues == {StrValue(<<" ", "1">>), StrValue(Str3), NumValue(4), StrValue(Str9)}
IdsRawOutputs == {ArrayOf(items) : items \in SeqsUpTo(IdsRawValues, MaxIdsRaw)}
IdsSettlements ==
  {Fulfilled(raw) : raw \in IdsRawOutputs} \cup {Rejected(e) : e \in ScoringThrownValues}

\* Expected 1 and 2 with 3 listed; and an id no row has, expected twice and
\* listed as well.
ExampleCase == [expectedIds |-> <<Str1, Str2>>, falsePositiveIds |-> <<Str3>>]
IdsTestCases ==
  {ExampleCase, [expectedIds |-> <<Str9, Str9>>, falsePositiveIds |-> <<Str9>>]}
IdsSuites == [dataset : Datasets, cases : SeqsUpTo(IdsTestCases, MaxCases)]

InitIds == InitWith(IdsSuites)

NextIds ==
  \/ Harness
  \/ SearchThrows({0}, ScoringThrownValues)
  \/ SearchReturns({0})
  \/ SearchSettles(IdsSettlements)

SpecIds == InitIds /\ [][NextIds]_vars

\* C15: the classification of a case is the set formulas over its expected
\* ids E, its listed false positives F, the returned ids R and the dataset's
\* ids: hits E \cap R, missing E \ R, listed false positives hit R \cap F,
\* invalid R \ byId, extras (R \cap byId) \ E \ F; two cases with the same
\* lists and the same set of returned ids are classified alike, wherever they
\* stand in the suite; and expected [1, 2], listed [3], returned [1, 3, 4]
\* gives hit [1], missing [2], listed hit [3], nothing invalid, extra [4], and
\* the case fails.
C15_ClassificationIsSetFormulas ==
  /\ pc = "aggregate" =>
       LET E == IdsOf(testCase.expectedIds)
           F == IdsOf(testCase.falsePositiveIds)
           R == IdsOf(returnedIds)
       IN /\ IdsOf(hitIds) = E \cap R
          /\ IdsOf(missingIds) = E \ R
          /\ IdsOf(fpHits) = R \cap F
          /\ IdsOf(invalidIds) = R \ byId
          /\ IdsOf(extrasUnscored) = ((R \cap byId) \ E) \ F
          /\ (testCase = ExampleCase /\ returnedIds = <<Str1, Str3, Str4>>) =>
               /\ hitIds = <<Str1>>
               /\ missingIds = <<Str2>>
               /\ fpHits = <<Str3>>
               /\ invalidIds = <<>>
               /\ extrasUnscored = <<Str4>>
               /\ ~Pass(missingIds, fpHits, extrasUnscored, invalidIds, runtimeError)
  /\ \A k \in Done :
       LET E == IdsOf(Cases[k].expectedIds)
           F == IdsOf(Cases[k].falsePositiveIds)
           R == IdsOf(printed[k].returnedIds)
       IN /\ IdsOf(printed[k].missingIds) = E \ R
          /\ IdsOf(printed[k].fpHits) = R \cap F
          /\ IdsOf(printed[k].invalidIds) = R \ byId
          /\ IdsOf(printed[k].extrasUnscored) = ((R \cap byId) \ E) \ F
  /\ \A j, k \in Done :
       (/\ Cases[j] = Cases[k]
        /\ IdsOf(printed[j].returnedIds) = IdsOf(printed[k].returnedIds)) =>
         /\ IdsOf(printed[j].missingIds) = IdsOf(printed[k].missingIds)
         /\ IdsOf(printed[j].fpHits) = IdsOf(printed[k].fpHits)
         /\ IdsOf(printed[j].invalidIds) = IdsOf(printed[k].invalidIds)
         /\ IdsOf(printed[j].extrasUnscored) = IdsOf(printed[k].extrasUnscored)

\* The example, as the second case of a suite whose first case returned ids
\* too: expected [1, 2], listed [3], returned [1, 3, 4].
C15_Witness ==
  /\ pc = "aggregate"
  /\ Len(printed) = 1
  /\ printed[1].returnedIds # <<>>
  /\ testCase = ExampleCase
  /\ returnedIds = <<Str1, Str3, Str4>>
  /\ hitIds = <<Str1>>
  /\ missingIds = <<Str2>>
  /\ fpHits = <<Str3>>
  /\ invalidIds = <<>>
  /\ extrasUnscored = <<Str4>>

Occurrences(seq, x) == Cardinality({k \in 1..Len(seq) : seq[k] = x})
NoRepeat(seq) == \A j, k \in 1..Len(seq) : j # k => seq[j] # seq[k]
\* How often the classification of the running case counts id.
CountedIn(id) ==
  Occurrences(hitIds, id) + Occurrences(fpHits, id)
    + Occurrences(invalidIds, id) + Occurrences(extrasUnscored, id)
WellFormed(case) ==
  /\ NoRepeat(case.expectedIds)
  /\ NoRepeat(case.falsePositiveIds)
  /\ ~Overlapping(case)
  /\ IdsOf(case.expectedIds) \subseteq byId
  /\ IdsOf(case.falsePositiveIds) \subseteq byId

\* C19: every returned id of a case is counted at least once among hitIds,
\* fpHits, invalidIds and extrasUnscored; when the case's expected and listed
\* ids have no repeated id, are disjoint and are ids of the dataset, each
\* returned id is counted exactly once; so after any cases of that kind
\* returnedTotal is the sum of expectedHits, listedFalsePositiveCount,
\* unexpectedExtraCount and invalidIdCount, and it never exceeds that sum.
C19_EveryReturnedIdAccounted ==
  /\ pc = "aggregate" =>
       /\ \A k \in 1..Len(returnedIds) : CountedIn(returnedIds[k]) >= 1
       /\ WellFormed(testCase) =>
            /\ \A k \in 1..Len(returnedIds) : CountedIn(returnedIds[k]) = 1
            /\ Len(returnedIds) =
                 Len(hitIds) + Len(fpHits) + Len(invalidIds) + Len(extrasUnscored)
  /\ (\A k \in Done : WellFormed(Cases[k])) =>
       returnedTotal =
         expectedHits + listedFalsePositiveCount + unexpectedExtraCount + invalidIdCount
  /\ returnedTotal <=
       expectedHits + listedFalsePositiveCount + unexpectedExtraCount + invalidIdCount

\* Two well-formed cases that returned six ids: hits, listed false positives,
\* an extra and an invalid id among them.
C19_Witness ==
  /\ Len(printed) = 2
  /\ \A k \in Done : WellFormed(Cases[k])
  /\ returnedTotal = 6
  /\ expectedHits >= 1
  /\ listedFalsePositiveCount >= 1
  /\ unexpectedExtraCount >= 1
  /\ invalidIdCount >= 1

\* ---------------------------------------------------------- SpecNormalize
\* SpecNormalize: one case, and outputs of up to MaxNormalizeRaw values that
\* are padded, blank, empty, numeric, or equal once trimmed.
MaxNormalizeRaw == 3
MaxNormalizeCases == 1

NormalizeRawValues ==
  {StrValue(<<" ", "1">>), NumValue(1), StrValue(<<"3", " ">>), StrValue(<<" ">>),
   StrValue(<<>>), StrValue(<<"1", " ", "2">>)}
NormalizeRawOutputs ==
  {NotAnArray} \cup {ArrayOf(items) : items \in SeqsUpTo(NormalizeRawValues, MaxNormalizeRaw)}
NormalizeSettlements ==
  {Fulfilled(raw) : raw \in NormalizeRawOutputs} \cup {Rejected(e) : e \in ScoringThrownValues}
NormalizeSuites == [dataset : Datasets, cases : SeqsUpTo({ExampleCase}, MaxNormalizeCases)]

InitNormalize == InitWith(NormalizeSuites)

NextNormalize ==
  \/ Harness
  \/ SearchThrows({0}, ScoringThrownValues)
  \/ SearchReturns({0})
  \/ SearchSettles(NormalizeSettlements)

SpecNormalize == InitNormalize /\ [][NextNormalize]_vars

\* C17: when main() takes the value a search call resolved with, the ids it
\* gets are: none for a value that is not an array; otherwise the elements as
\* strings, trimmed, without the empty ones, each at the place of its first
\* occurrence and only there; so no id is empty or repeated, and normalizing
\* the result again gives the same list.
C17_NormalizationOfOutput ==
  [][(pc = "await" /\ pc' = "classify" /\ race[Current].state = "fulfilled") =>
       LET raw == race[Current].value.raw
           out == returnedIds'
           ids == [k \in 1..Len(raw.items) |-> Trim(StringOf(raw.items[k]))]
           First(id) == CHOOSE k \in 1..Len(ids) :
                          ids[k] = id /\ \A j \in 1..(k - 1) : ids[j] # id
       IN /\ ~raw.isArray => out = <<>>
          /\ raw.isArray =>
               /\ NoRepeat(out)
               /\ \A k \in 1..Len(out) : out[k] # <<>> /\ Trim(out[k]) = out[k]
               /\ IdsOf(out) = IdsOf(ids) \ {<<>>}
               /\ \A j, k \in 1..Len(out) : j < k => First(out[j]) < First(out[k])
          /\ toUniqueIds(ArrayOf([k \in 1..Len(out) |-> StrValue(out[k])])) = out
    ]_vars

\* The search call resolved with [" 1", 1, "3 "]: a padded id, the same id as
\* a number and an id padded at its end; main() is about to take it as
\* ["1", "3"].
C17_Witness ==
  /\ pc = "await"
  /\ race[1].state = "fulfilled"
  /\ race[1].value.raw.items = <<StrValue(<<" ", "1">>), NumValue(1), StrValue(<<"3", " ">>)>>
  /\ toUniqueIds(race[1].value.raw) = <<Str1, Str3>>

\* ------------------------------------------------------------- SpecTiming
\* SpecTiming: up to MaxTimedCases cases whose search calls run for 10 or 30 ms
\* before they throw or return, and wait up to the deadline after that.
MaxTimedCases == 3

TimingSyncMs == {10, 30}
TimingSettlements == {Fulfilled(ArrayOf(<<>>))} \cup {Rejected(e) : e \in ScoringThrownValues}
TimingSuites ==
  [dataset : Datasets,
   cases : SeqsUpTo({[expectedIds |-> <<>>, falsePositiveIds |-> <<>>]}, MaxTimedCases)]

InitTiming == InitWith(TimingSuites)

NextTiming ==
  \/ Harness
  \/ SearchThrows(TimingSyncMs, ScoringThrownValues)
  \/ SearchReturns(TimingSyncMs)
  \/ SearchSettles(TimingSettlements)

SpecTiming == InitTiming /\ [][NextTiming]_vars

\* -------------------------------------------------- claims: the timing
Reordered(values, order) == [k \in 1..Len(values) |-> values[order[k]]]

\* C18: p95Ms is 0 when there is no sample; otherwise it is one of the
\* samples, between the least and the greatest, and the one at index
\* floor((count - 1) * 0.95) of the samples in ascending order: at most that
\* many samples are smaller and more than that many are not greater; it is the
\* same in whatever order the cases ran; avgMs is the sum over the count; and
\* the samples [10, 30] give p95Ms = 10 and avgMs = 20.
C18_P95IsNearestRankSample ==
  summary.produced =>
    LET count == Len(timesMs)
        p95Ms == summary.p95Ms
        idx == ((count - 1) * 95) \div 100
        samples == {timesMs[k] : k \in 1..count}
        least == CHOOSE v \in samples : \A w \in samples : v <= w
        greatest == CHOOSE v \in samples : \A w \in samples : w <= v
    IN /\ count = 0 => p95Ms = 0
       /\ count > 0 =>
            /\ \E k \in 1..count : timesMs[k] = p95Ms
            /\ least <= p95Ms
            /\ p95Ms <= greatest
            /\ Cardinality({k \in 1..count : timesMs[k] < p95Ms}) <= idx
            /\ Cardinality({k \in 1..count : timesMs[k] <= p95Ms}) >= idx + 1
            /\ RatEq(summary.avgMs, Rat(SumOf(timesMs), count))
       /\ \A order \in Permutations(1..count) :
            percentile(Reordered(timesMs, order), 95) = p95Ms
       /\ samples = {10, 30} /\ count = 2 =>
            p95Ms = 10 /\ RatEq(summary.avgMs, Rat(20, 1))

\* Two cases that took 30 ms and then 10 ms: p95Ms is 10 and avgMs is 20.
C18_Witness ==
  /\ summary.produced
  /\ timesMs = <<30, 10>>
  /\ summary.p95Ms = 10
  /\ RatEq(summary.avgMs, Rat(20, 1))

====
